---- MODULE Spec2Model ----
(***************************************************************************)
(* Dada Bucks store (src/src/store/dadaStore.ts): the state of the zustand *)
(* store and one action per store operation.  Every operation runs to      *)
(* completion (single-threaded JavaScript), so each one is one atomic step.*)
(*                                                                         *)
(* Time is the local wall clock in whole hours since local midnight of day *)
(* 0.  getTodayDate() is the UTC calendar date, utcOffset hours away from  *)
(* the local clock.  Dates are day numbers.  Generated ids are fresh       *)
(* integers.  result records the last operation called and its return      *)
(* value.                                                                  *)
(*                                                                         *)
(* The state space is explored from construction in scopes: "all" calls    *)
(* the operations on children, completions, strikes, savings, spend        *)
(* requests, the vault and the clock; "strike", "spend", "clock" and       *)
(* "interest" call only the operations of the strike ledger, of the spend  *)
(* workflow, of the daily reset and of task editing with savings interest, *)
(* and go deeper; "calc" calls calculateDailyInterest on every savings     *)
(* balance up to a bound; "notify" follows approved requests to their      *)
(* notifications and "cancel" adds cancelSpendRequest and the              *)
(* notification query to the request workflow; "family" adds, switches and *)
(* deletes children around a spend request.  The strike scope also renames *)
(* the child and resets the store.  budget counts the calls left in the    *)
(* scope.                                                                  *)
(*                                                                         *)
(* resetLog is a history variable: the clock readings of the last reset    *)
(* check, of the last performed reset and of the one before it (the        *)
(* construction of the store counts as the first).                         *)
(***************************************************************************)
EXTENDS Integers, Sequences, FiniteSets, TLC

\* ------------------------------------------------------------------------
\* Program constants (src/unnamed/part_003, the '@/types' module)
\* ------------------------------------------------------------------------
VAULT_MAX == 1000
MAX_STRIKES == 3
RESET_HOUR == 22

\* ------------------------------------------------------------------------
\* Bounds of the model
\* ------------------------------------------------------------------------
\* number of store operations explored from construction
MaxSteps == 5
\* the same, when only the operations of the strike ledger are called
MaxStrikeSteps == 9
\* the same, when only the operations of the spend workflow are called
MaxSpendSteps == 8
\* the same, when only the clock and the daily reset are exercised
MaxClockSteps == 7
\* the same, when only the operations that build up savings are called
MaxInterestSteps == 8
\* number of calls of calculateDailyInterest explored
MaxCalcSteps == 1
\* largest savings balance calculateDailyInterest is called with
MaxSavingsBalance == 250
\* the same, for the operations that lead to approval notifications
MaxNotifySteps == 9
\* the same, for the request workflow with cancelSpendRequest
MaxCancelSteps == 6
\* the same, for the operations on several children with deleteChild
MaxFamilySteps == 7
\* number of child profiles
MaxChildren == 2

\* Inputs the operations are called with
NoId == 0
HoursPerDay == 24
StartHours == {46}
UtcOffsets == {0, 5}
TickHours == {2, 24}
VaultAmounts == {5, 998}
SavingsAmounts == {-1, 0, 3, 100}
WithdrawAmounts == {-1, 0, 3, 50}
\* the clock scope starts at 20:00 of day 1, east and west of Greenwich
ClockStartHours == {44}
ClockUtcOffsets == {-10, 0, 5}
\* the interest, notify and cancel scopes run on UTC
InterestUtcOffsets == {0}
\* edits of a task saved from the task row (payout and dailyMax fields)
TaskUpdates == {[dailyMax |-> 1], [payout |-> 150]}
\* edit of a child saved from the child selector (name and avatar fields)
ChildUpdates == {[name |-> "name", avatar |-> "avatar"]}

VARIABLES
    children,              \* ChildProfile[]
    currentChildId,        \* id of the selected child, NoId for ''
    vault,                 \* Vault
    tasks,                 \* Task[]
    transactions,          \* Transaction[], newest first
    pendingRequests,       \* SpendRequest[]
    requestHistory,        \* SpendRequest[], newest first
    approvedNotifications, \* ApprovedRequestNotification[], newest first
    strikes,               \* Strike[]
    lastResetDate,         \* day number written by the last reset
    now,                   \* local clock, hours
    utcOffset,             \* UTC clock minus local clock, hours
    nextId,                \* source of generateId()
    result,                \* the last operation and what it returned
    scope,                 \* which operations this exploration calls
    budget,                \* operations left to explore
    resetLog               \* history of the reset checks

store == <<children, currentChildId, vault, tasks, transactions,
           pendingRequests, requestHistory, approvedNotifications, strikes,
           lastResetDate>>
clock == <<now, utcOffset>>
vars == <<children, currentChildId, vault, tasks, transactions,
          pendingRequests, requestHistory, approvedNotifications, strikes,
          lastResetDate, now, utcOffset, nextId, result, scope, budget,
          resetLog>>

\* ------------------------------------------------------------------------
\* Helpers
\* ------------------------------------------------------------------------
Min(a, b) == IF a < b THEN a ELSE b
Max(a, b) == IF a > b THEN a ELSE b

RECURSIVE SumSeq(_)
SumSeq(s) == IF s = <<>> THEN 0 ELSE Head(s) + SumSeq(Tail(s))

\* new Date().toISOString().split('T')[0]: the UTC calendar date
getTodayDate == (now + utcOffset) \div HoursPerDay

\* children.find((c) => c.id === currentChildId) || children[0]
ChildIndex(id) ==
    IF \E i \in 1..Len(children) : children[i].id = id
    THEN CHOOSE i \in 1..Len(children) :
            /\ children[i].id = id
            /\ \A j \in 1..(i - 1) : children[j].id # id
    ELSE 0
getCurrentChild_First == children[1]
getCurrentChild ==
    IF ChildIndex(currentChildId) # 0 THEN children[ChildIndex(currentChildId)]
    ELSE children[1]

\* tasks.find((t) => t.id === taskId); 0 when absent
TaskIndex(taskId) ==
    IF \E i \in 1..Len(tasks) : tasks[i].id = taskId
    THEN CHOOSE i \in 1..Len(tasks) :
            /\ tasks[i].id = taskId
            /\ \A j \in 1..(i - 1) : tasks[j].id # taskId
    ELSE 0

\* strikes.filter((s) => s.day === today && s.childId === child.id).length
TodayStrikes(ss, cid, day) ==
    Cardinality({i \in 1..Len(ss) : ss[i].day = day /\ ss[i].childId = cid})

Result(op, arg, success, message, value) ==
    [op |-> op, arg |-> arg, success |-> success, message |-> message,
     value |-> value]

\* the operations each exploration scope calls, and how many of them
ScopeOps ==
    [all |-> {"addChild", "switchChild", "toggleTaskActive", "completeTask",
              "undoTaskCompletion", "addStrike", "removeStrike",
              "resetStrikes", "checkAndPerformDailyReset", "depositToSavings",
              "withdrawFromSavings", "createSpendRequest", "approveRequest",
              "denyRequest", "addToVault", "removeFromVault", "Tick"},
     strike |-> {"completeTask", "addStrike", "resetStrikes", "resetAll",
                 "updateChild"},
     spend |-> {"completeTask", "Tick", "checkAndPerformDailyReset",
                "depositToSavings", "withdrawFromSavings",
                "createSpendRequest", "approveRequest", "denyRequest"},
     clock |-> {"completeTask", "addStrike", "Tick",
                "checkAndPerformDailyReset"},
     interest |-> {"updateTask", "completeTask", "Tick",
                   "checkAndPerformDailyReset", "depositToSavings",
                   "withdrawFromSavings"},
     calc |-> {"calculateDailyInterest"},
     notify |-> {"completeTask", "Tick", "checkAndPerformDailyReset",
                 "createSpendRequest", "approveRequest",
                 "markNotificationShown"},
     cancel |-> {"completeTask", "Tick", "checkAndPerformDailyReset",
                 "createSpendRequest", "cancelSpendRequest",
                 "approveRequest", "denyRequest", "addToVault",
                 "getUnshownApprovedRequests"},
     family |-> {"addChild", "switchChild", "deleteChild", "completeTask",
                 "Tick", "checkAndPerformDailyReset", "createSpendRequest",
                 "approveRequest"}]
ScopeSteps ==
    [all |-> MaxSteps, strike |-> MaxStrikeSteps, spend |-> MaxSpendSteps,
     clock |-> MaxClockSteps, interest |-> MaxInterestSteps,
     calc |-> MaxCalcSteps, notify |-> MaxNotifySteps,
     cancel |-> MaxCancelSteps, family |-> MaxFamilySteps]
\* the clock readings and UTC offsets each scope is constructed at
ScopeStartHours ==
    [s \in DOMAIN ScopeSteps |->
        IF s = "clock" THEN ClockStartHours ELSE StartHours]
ScopeUtcOffsets ==
    [s \in DOMAIN ScopeSteps |->
        IF s = "clock" THEN ClockUtcOffsets
        ELSE IF s \in {"interest", "notify", "cancel", "family"}
             THEN InterestUtcOffsets
        ELSE UtcOffsets]

Step(op) ==
    /\ budget > 0
    /\ op \in ScopeOps[scope]
    /\ budget' = budget - 1
    /\ UNCHANGED scope
    /\ op # "checkAndPerformDailyReset" => UNCHANGED resetLog

\* ------------------------------------------------------------------------
\* Construction
\* ------------------------------------------------------------------------
createDefaultChild(id, day) ==
    [id |-> id, balance |-> 0, savings |-> 0, savingsInterestAccrued |-> 0,
     totalEarned |-> 0, totalSpent |-> 0, pendingEarnings |-> 0,
     lastInterestDate |-> day]

createDefaultVault == [balance |-> 1000, maxBalance |-> VAULT_MAX]

\* DEFAULT_TASKS 'Make bed' and 'Wash dishes', with ids `task-${index}`
createInitialTasks ==
    << [id |-> 1, payout |-> 3, dailyMax |-> 1, completions |-> 0,
        isActive |-> TRUE],
       [id |-> 6, payout |-> 2, dailyMax |-> 3, completions |-> 0,
        isActive |-> TRUE] >>

\* the ids of the tasks and one that names no task
TaskIdInputs == {1, 6, 99}

Construct ==
    /\ now \in ScopeStartHours[scope]
    /\ utcOffset \in ScopeUtcOffsets[scope]
    /\ children = <<createDefaultChild(1, (now + utcOffset) \div HoursPerDay)>>
    /\ currentChildId = NoId
    /\ vault = createDefaultVault
    /\ tasks = createInitialTasks
    /\ transactions = <<>>
    /\ pendingRequests = <<>>
    /\ requestHistory = <<>>
    /\ approvedNotifications = <<>>
    /\ strikes = <<>>
    /\ lastResetDate = (now + utcOffset) \div HoursPerDay
    /\ nextId = 2
    /\ result = Result("create", NoId, TRUE, "", 0)
    /\ resetLog = [polled |-> now, performed |-> now, before |-> now]

Init ==
    /\ scope \in DOMAIN ScopeSteps
    /\ budget = ScopeSteps[scope]
    /\ Construct

\* ------------------------------------------------------------------------
\* Multi-child management
\* ------------------------------------------------------------------------
addChild ==
    /\ Step("addChild")
    /\ Len(children) < MaxChildren
    /\ children' = Append(children, createDefaultChild(nextId, getTodayDate))
    /\ nextId' = nextId + 1
    /\ result' = Result("addChild", nextId, TRUE, "", 0)
    /\ UNCHANGED <<currentChildId, vault, tasks, transactions, pendingRequests,
                   requestHistory, approvedNotifications, strikes,
                   lastResetDate, clock>>

\* { ...child, ...updates }: the fields of updates replace those of child;
\* the model's child record carries no name and no avatar
MergeChild(child, updates) ==
    [f \in DOMAIN child |->
        IF f \in DOMAIN updates THEN updates[f] ELSE child[f]]

updateChild(childId, updates) ==
    /\ Step("updateChild")
    /\ children' = [i \in 1..Len(children) |->
                       IF children[i].id = childId
                       THEN MergeChild(children[i], updates)
                       ELSE children[i]]
    /\ result' = Result("updateChild", childId, TRUE, "", 0)
    /\ UNCHANGED <<currentChildId, vault, tasks, transactions,
                   pendingRequests, requestHistory, approvedNotifications,
                   strikes, lastResetDate, clock, nextId>>

\* children.length <= 1: the last child cannot be deleted
LastChild_Never == FALSE
LastChild == Len(children) <= 1

\* children.filter((c) => c.id !== childId)
RemoveChild(childId) ==
    LET Others(c) == c.id # childId
    IN  SelectSeq(children, Others)

deleteChild_PurgesLog(childId) ==
    LET newChildren == RemoveChild(childId)
        Kept(t) == t.childId # childId
    IN  /\ Step("deleteChild")
        /\ IF LastChild
           THEN /\ result' = Result("deleteChild", childId, FALSE, "", 0)
                /\ UNCHANGED <<children, currentChildId, transactions>>
           ELSE /\ children' = newChildren
                /\ currentChildId' =
                      IF currentChildId = childId THEN newChildren[1].id
                      ELSE currentChildId
                /\ transactions' = SelectSeq(transactions, Kept)
                /\ result' = Result("deleteChild", childId, TRUE, "", 0)
        /\ UNCHANGED <<vault, tasks, pendingRequests, requestHistory,
                       approvedNotifications, strikes, lastResetDate, clock,
                       nextId>>
deleteChild(childId) ==
    LET newChildren == RemoveChild(childId)
    IN  /\ Step("deleteChild")
        /\ IF LastChild
           THEN /\ result' = Result("deleteChild", childId, FALSE, "", 0)
                /\ UNCHANGED <<children, currentChildId>>
           ELSE /\ children' = newChildren
                /\ currentChildId' =
                      IF currentChildId = childId THEN newChildren[1].id
                      ELSE currentChildId
                /\ result' = Result("deleteChild", childId, TRUE, "", 0)
        /\ UNCHANGED <<vault, tasks, transactions, pendingRequests,
                       requestHistory, approvedNotifications, strikes,
                       lastResetDate, clock, nextId>>

switchChild(childId) ==
    /\ Step("switchChild")
    /\ currentChildId' = childId
    /\ result' = Result("switchChild", childId, TRUE, "", 0)
    /\ UNCHANGED <<children, vault, tasks, transactions, pendingRequests,
                   requestHistory, approvedNotifications, strikes,
                   lastResetDate, clock, nextId>>

\* ------------------------------------------------------------------------
\* Task management
\* ------------------------------------------------------------------------
\* { ...task, ...updates }: the fields of updates replace those of task
MergeTask(task, updates) ==
    [f \in DOMAIN task |-> IF f \in DOMAIN updates THEN updates[f] ELSE task[f]]

updateTask(taskId, updates) ==
    /\ Step("updateTask")
    /\ tasks' = [i \in 1..Len(tasks) |->
                    IF tasks[i].id = taskId
                    THEN MergeTask(tasks[i], updates)
                    ELSE tasks[i]]
    /\ result' = Result("updateTask", taskId, TRUE, "", 0)
    /\ UNCHANGED <<children, currentChildId, vault, transactions,
                   pendingRequests, requestHistory, approvedNotifications,
                   strikes, lastResetDate, clock, nextId>>

toggleTaskActive(taskId) ==
    /\ Step("toggleTaskActive")
    /\ tasks' = [i \in 1..Len(tasks) |->
                    IF tasks[i].id = taskId
                    THEN [tasks[i] EXCEPT !.isActive = ~tasks[i].isActive]
                    ELSE tasks[i]]
    /\ result' = Result("toggleTaskActive", taskId, TRUE, "", 0)
    /\ UNCHANGED <<children, currentChildId, vault, transactions,
                   pendingRequests, requestHistory, approvedNotifications,
                   strikes, lastResetDate, clock, nextId>>

\* ------------------------------------------------------------------------
\* Task completion
\* ------------------------------------------------------------------------
\* the checks of completeTask in the order the code makes them; "" when all
\* pass.  ti is the index of the task, 0 when it is absent.
CompleteTaskCheck_VaultFirst(ti, todayStrikes, vaultBalance) ==
    IF ti = 0 THEN "Task not found"
    ELSE IF ~tasks[ti].isActive THEN "This task is not active"
    ELSE IF vaultBalance < tasks[ti].payout
         THEN "Vault is empty! Add more Dada Bucks."
    ELSE IF todayStrikes >= MAX_STRIKES
         THEN "Cannot earn - 3 strikes today! All earnings forfeited."
    ELSE IF tasks[ti].completions >= tasks[ti].dailyMax
         THEN "Daily limit reached"
    ELSE ""
CompleteTaskCheck(ti, todayStrikes, vaultBalance) ==
    IF ti = 0 THEN "Task not found"
    ELSE IF ~tasks[ti].isActive THEN "This task is not active"
    ELSE IF todayStrikes >= MAX_STRIKES
         THEN "Cannot earn - 3 strikes today! All earnings forfeited."
    ELSE IF tasks[ti].completions >= tasks[ti].dailyMax
         THEN "Daily limit reached"
    ELSE IF vaultBalance < tasks[ti].payout
         THEN "Vault is empty! Add more Dada Bucks."
    ELSE ""

\* the child record after a completion worth `earned`
CompleteTaskCredit_ToBalance(c, earned) ==
    [c EXCEPT !.balance = c.balance + earned]
CompleteTaskCredit(c, earned) ==
    [c EXCEPT !.pendingEarnings = c.pendingEarnings + earned]

completeTask(taskId) ==
    LET child == getCurrentChild
        ti == TaskIndex(taskId)
        todayStrikes == TodayStrikes(strikes, child.id, getTodayDate)
        failure == CompleteTaskCheck(ti, todayStrikes, vault.balance)
        earned == tasks[ti].payout
    IN  /\ Step("completeTask")
        /\ IF failure # ""
           THEN /\ result' = Result("completeTask", taskId, FALSE, failure, 0)
                /\ UNCHANGED <<tasks, children, vault>>
           ELSE /\ tasks' = [i \in 1..Len(tasks) |->
                    IF tasks[i].id = taskId
                    THEN [tasks[i] EXCEPT !.completions = tasks[i].completions + 1]
                    ELSE tasks[i]]
                /\ children' = [i \in 1..Len(children) |->
                    IF children[i].id = child.id
                    THEN CompleteTaskCredit(children[i], earned)
                    ELSE children[i]]
                /\ vault' = [vault EXCEPT !.balance = vault.balance - earned]
                /\ result' = Result("completeTask", taskId, TRUE,
                                    "Great job!", earned)
        /\ UNCHANGED <<currentChildId, transactions, pendingRequests,
                       requestHistory, approvedNotifications, strikes,
                       lastResetDate, clock, nextId>>

\* Math.max(0, c.pendingEarnings - earned)
UndoPending_Zeroes(pending, earned) == 0
UndoPending(pending, earned) == Max(0, pending - earned)

\* Math.min(VAULT_MAX, state.vault.balance + amount)
CreditVault_NoCap(vaultBalance, amount) == vaultBalance + amount
CreditVault(vaultBalance, amount) == Min(VAULT_MAX, vaultBalance + amount)

undoTaskCompletion(taskId) ==
    LET child == getCurrentChild
        ti == TaskIndex(taskId)
        earned == tasks[ti].payout
    IN  /\ Step("undoTaskCompletion")
        /\ IF ti = 0 \/ tasks[ti].completions <= 0
           THEN /\ result' = Result("undoTaskCompletion", taskId, FALSE,
                                    "No completions to undo", 0)
                /\ UNCHANGED <<tasks, children, vault>>
           ELSE /\ tasks' = [i \in 1..Len(tasks) |->
                    IF tasks[i].id = taskId
                    THEN [tasks[i] EXCEPT !.completions = tasks[i].completions - 1]
                    ELSE tasks[i]]
                /\ children' = [i \in 1..Len(children) |->
                    IF children[i].id = child.id
                    THEN [children[i] EXCEPT !.pendingEarnings =
                            UndoPending(children[i].pendingEarnings, earned)]
                    ELSE children[i]]
                /\ vault' = [vault EXCEPT !.balance =
                                CreditVault(vault.balance, earned)]
                /\ result' = Result("undoTaskCompletion", taskId, TRUE,
                                    "Task completion undone", 0)
        /\ UNCHANGED <<currentChildId, transactions, pendingRequests,
                       requestHistory, approvedNotifications, strikes,
                       lastResetDate, clock, nextId>>

\* ------------------------------------------------------------------------
\* Strike system
\* ------------------------------------------------------------------------
\* todayStrikes >= MAX_STRIKES: no further strike today
StrikeCapReached_OffByOne(todayStrikes) == todayStrikes > MAX_STRIKES
StrikeCapReached_Never(todayStrikes) == FALSE
StrikeCapReached(todayStrikes) == todayStrikes >= MAX_STRIKES

\* newStrikeCount >= MAX_STRIKES: this strike forfeits
ForfeitTriggered_Never(newStrikeCount) == FALSE
ForfeitTriggered_Early(newStrikeCount) == newStrikeCount >= MAX_STRIKES - 1
ForfeitTriggered(newStrikeCount) == newStrikeCount >= MAX_STRIKES

\* forfeited > 0 ? [penaltyTransaction, ...state.transactions] : state.transactions
PenaltyLog(txns, penalty, forfeited) ==
    IF forfeited > 0 THEN <<penalty>> \o txns ELSE txns

addStrike ==
    LET child == getCurrentChild
        today == getTodayDate
        todayStrikes == TodayStrikes(strikes, child.id, today)
        newStrike == [id |-> nextId, childId |-> child.id, day |-> today]
        newStrikeCount == todayStrikes + 1
        forfeited == child.pendingEarnings
        penaltyTransaction == [id |-> nextId + 1, childId |-> child.id,
                               type |-> "strike_penalty", amount |-> -forfeited]
    IN  /\ Step("addStrike")
        /\ IF StrikeCapReached(todayStrikes)
           THEN /\ result' = Result("addStrike", NoId, FALSE,
                                    "Maximum strikes already reached today", 0)
                /\ UNCHANGED <<strikes, children, vault, transactions, nextId>>
           ELSE IF ForfeitTriggered(newStrikeCount)
           THEN /\ strikes' = Append(strikes, newStrike)
                /\ children' = [i \in 1..Len(children) |->
                    IF children[i].id = child.id
                    THEN [children[i] EXCEPT !.pendingEarnings = 0]
                    ELSE children[i]]
                /\ vault' = [vault EXCEPT !.balance =
                                CreditVault(vault.balance, forfeited)]
                /\ transactions' = PenaltyLog(transactions, penaltyTransaction,
                                              forfeited)
                /\ nextId' = nextId + 2
                /\ result' = Result("addStrike", NoId, TRUE,
                                    "3 STRIKES! All pending earnings forfeited!",
                                    forfeited)
           ELSE /\ strikes' = Append(strikes, newStrike)
                /\ nextId' = nextId + 1
                /\ result' = Result("addStrike", NoId, TRUE, "Strike", 0)
                /\ UNCHANGED <<children, vault, transactions>>
        /\ UNCHANGED <<currentChildId, tasks, pendingRequests, requestHistory,
                       approvedNotifications, lastResetDate, clock>>

removeStrike(strikeId) ==
    /\ Step("removeStrike")
    /\ LET Keep(s) == s.id # strikeId
       IN  strikes' = SelectSeq(strikes, Keep)
    /\ result' = Result("removeStrike", strikeId, TRUE, "", 0)
    /\ UNCHANGED <<children, currentChildId, vault, tasks, transactions,
                   pendingRequests, requestHistory, approvedNotifications,
                   lastResetDate, clock, nextId>>

resetStrikes_ActingOnly ==
    /\ Step("resetStrikes")
    /\ LET Others(s) == s.childId # getCurrentChild.id
       IN  strikes' = SelectSeq(strikes, Others)
    /\ result' = Result("resetStrikes", NoId, TRUE, "", 0)
    /\ UNCHANGED <<children, currentChildId, vault, tasks, transactions,
                   pendingRequests, requestHistory, approvedNotifications,
                   lastResetDate, clock, nextId>>
resetStrikes ==
    /\ Step("resetStrikes")
    /\ strikes' = <<>>
    /\ result' = Result("resetStrikes", NoId, TRUE, "", 0)
    /\ UNCHANGED <<children, currentChildId, vault, tasks, transactions,
                   pendingRequests, requestHistory, approvedNotifications,
                   lastResetDate, clock, nextId>>

\* ------------------------------------------------------------------------
\* Vault management
\* ------------------------------------------------------------------------
addToVault(amount) ==
    /\ Step("addToVault")
    /\ vault' = [vault EXCEPT !.balance = CreditVault(vault.balance, amount)]
    /\ result' = Result("addToVault", amount, TRUE, "", 0)
    /\ UNCHANGED <<children, currentChildId, tasks, transactions,
                   pendingRequests, requestHistory, approvedNotifications,
                   strikes, lastResetDate, clock, nextId>>

removeFromVault(amount) ==
    /\ Step("removeFromVault")
    /\ IF vault.balance < amount
       THEN /\ result' = Result("removeFromVault", amount, FALSE, "", 0)
            /\ UNCHANGED vault
       ELSE /\ vault' = [vault EXCEPT !.balance = vault.balance - amount]
            /\ result' = Result("removeFromVault", amount, TRUE, "", 0)
    /\ UNCHANGED <<children, currentChildId, tasks, transactions,
                   pendingRequests, requestHistory, approvedNotifications,
                   strikes, lastResetDate, clock, nextId>>

\* ------------------------------------------------------------------------
\* The clock
\* ------------------------------------------------------------------------
Tick(hours) ==
    /\ Step("Tick")
    /\ now' = now + hours
    /\ result' = Result("tick", hours, TRUE, "", 0)
    /\ UNCHANGED <<store, utcOffset, nextId>>

\* ------------------------------------------------------------------------
\* 10 PM daily reset
\* ------------------------------------------------------------------------
\* new Date(lastResetDate + 'T22:00:00'): the date string read as LOCAL time
ResetInstant(date) == date * HoursPerDay + RESET_HOUR

\* new Date().setHours(RESET_HOUR, 0, 0, 0): 22:00 of the local day
TodayReset == (now \div HoursPerDay) * HoursPerDay + RESET_HOUR

shouldResetToday_NoWatermark(date) ==
    \/ now >= TodayReset
    \/ ResetInstant(date) < TodayReset - HoursPerDay
shouldResetToday_NoCatchUp(date) ==
    now >= TodayReset /\ ResetInstant(date) < TodayReset
shouldResetToday_NotStrict(date) ==
    \/ now >= TodayReset /\ ResetInstant(date) <= TodayReset
    \/ ResetInstant(date) <= TodayReset - HoursPerDay
shouldResetToday(date) ==
    \/ now >= TodayReset /\ ResetInstant(date) < TodayReset
    \/ ResetInstant(date) < TodayReset - HoursPerDay

\* Floating-point numbers are fixed-point integers in millionths.  A product
\* is the exact product plus a rounding error of at most one millionth,
\* which bounds the error of a double from above for the amounts explored.
Micro == 1000000
RoundingErrors == {-1, 0, 1}
\* savingsBalance * dailyRate: the double 0.01 lies above 1/100 and rounding
\* is monotone, so the product of a multiple of 100 is not below the integer
ProductErrors(savingsBalance) ==
    IF savingsBalance % 100 = 0 THEN {0, 1} ELSE RoundingErrors
MathFloor(x) == x \div Micro
\* Math.round: the nearest integer, halves upwards
MathRound_Floor(x) == x \div Micro
MathRound(x) == (x + Micro \div 2) \div Micro

\* the values the computation can return under those rounding errors
InterestOutcomes(savingsBalance) ==
    { LET interest == savingsBalance * (Micro \div 100) + e1
          wholeAmount == MathFloor(interest)
          fractionalPart == interest - wholeAmount * Micro
      IN  [wholeAmount |-> wholeAmount,
           newAccrued |-> MathRound(fractionalPart * 100 + e2)] :
      e1 \in ProductErrors(savingsBalance), e2 \in RoundingErrors }

calculateDailyInterest(savingsBalance) ==
    CHOOSE r \in InterestOutcomes(savingsBalance) : TRUE

\* a call of the store's calculateDailyInterest: reads nothing, changes nothing
calculateDailyInterestCall(savingsBalance) ==
    /\ Step("calculateDailyInterest")
    /\ \E r \in InterestOutcomes(savingsBalance) :
          result' = [op |-> "calculateDailyInterest", arg |-> savingsBalance,
                     success |-> TRUE, message |-> "",
                     value |-> r.wholeAmount, newAccrued |-> r.newAccrued]
    /\ UNCHANGED <<store, clock, nextId>>

\* the child record after a performed reset
ResetChild_AccruesCarry(c, today) ==
    LET interest == calculateDailyInterest(c.savings)
    IN  [c EXCEPT !.balance = IF c.pendingEarnings > 0
                               THEN c.balance + c.pendingEarnings
                               ELSE c.balance,
                  !.totalEarned = IF c.pendingEarnings > 0
                                   THEN c.totalEarned + c.pendingEarnings
                                   ELSE c.totalEarned,
                  !.savings = IF interest.wholeAmount > 0
                               THEN c.savings + interest.wholeAmount
                               ELSE c.savings,
                  !.savingsInterestAccrued =
                      c.savingsInterestAccrued + interest.newAccrued,
                  !.pendingEarnings = 0,
                  !.lastInterestDate = today]
ResetChild_CurrentOnly(c, today) ==
    LET interest == calculateDailyInterest(c.savings)
        release == c.pendingEarnings > 0 /\ c.id = getCurrentChild.id
    IN  [c EXCEPT !.balance = IF release THEN c.balance + c.pendingEarnings
                               ELSE c.balance,
                  !.totalEarned = IF release
                                   THEN c.totalEarned + c.pendingEarnings
                                   ELSE c.totalEarned,
                  !.savings = IF interest.wholeAmount > 0
                               THEN c.savings + interest.wholeAmount
                               ELSE c.savings,
                  !.savingsInterestAccrued = interest.newAccrued,
                  !.pendingEarnings = 0,
                  !.lastInterestDate = today]
ResetChild_NoTotal(c, today) ==
    LET interest == calculateDailyInterest(c.savings)
    IN  [c EXCEPT !.balance = IF c.pendingEarnings > 0
                               THEN c.balance + c.pendingEarnings
                               ELSE c.balance,
                  !.savings = IF interest.wholeAmount > 0
                               THEN c.savings + interest.wholeAmount
                               ELSE c.savings,
                  !.savingsInterestAccrued = interest.newAccrued,
                  !.pendingEarnings = 0,
                  !.lastInterestDate = today]
ResetChild(c, today) ==
    LET interest == calculateDailyInterest(c.savings)
    IN  [c EXCEPT !.balance = IF c.pendingEarnings > 0
                               THEN c.balance + c.pendingEarnings
                               ELSE c.balance,
                  !.totalEarned = IF c.pendingEarnings > 0
                                   THEN c.totalEarned + c.pendingEarnings
                                   ELSE c.totalEarned,
                  !.savings = IF interest.wholeAmount > 0
                               THEN c.savings + interest.wholeAmount
                               ELSE c.savings,
                  !.savingsInterestAccrued = interest.newAccrued,
                  !.pendingEarnings = 0,
                  !.lastInterestDate = today]

\* newTransactions: per child, in order, an earn entry when pendingEarnings > 0
\* and an interest entry when wholeAmount > 0; id is the next fresh id
RECURSIVE ResetTransactions(_, _)
ResetTransactions(cs, id) ==
    IF cs = <<>> THEN <<>>
    ELSE LET c == Head(cs)
             whole == calculateDailyInterest(c.savings).wholeAmount
             earn == IF c.pendingEarnings > 0
                     THEN <<[id |-> id, childId |-> c.id, type |-> "earn",
                             amount |-> c.pendingEarnings]>>
                     ELSE <<>>
             interest == IF whole > 0
                         THEN <<[id |-> id + Len(earn), childId |-> c.id,
                                 type |-> "interest", amount |-> whole]>>
                         ELSE <<>>
         IN  earn \o interest
                \o ResetTransactions(Tail(cs), id + Len(earn) + Len(interest))

\* { didReset, earningsDeposited, interestEarned }
ResetResult(didReset, earningsDeposited, interestEarned) ==
    [op |-> "checkAndPerformDailyReset", arg |-> NoId, success |-> didReset,
     message |-> "", value |-> earningsDeposited,
     interestEarned |-> interestEarned]

checkAndPerformDailyReset_ClearsTasks ==
    LET today == getTodayDate
        newTransactions == ResetTransactions(children, nextId)
        KeepToday(s) == s.day = today
        earningsDeposited ==
            SumSeq([i \in 1..Len(children) |-> children[i].pendingEarnings])
        interestEarned ==
            SumSeq([i \in 1..Len(children) |->
                      calculateDailyInterest(children[i].savings).wholeAmount])
    IN  /\ Step("checkAndPerformDailyReset")
        /\ IF ~shouldResetToday(lastResetDate)
           THEN /\ result' = ResetResult(FALSE, 0, 0)
                /\ resetLog' = [resetLog EXCEPT !.polled = now]
                /\ tasks' = [i \in 1..Len(tasks) |->
                                [tasks[i] EXCEPT !.completions = 0]]
                /\ UNCHANGED <<children, strikes, lastResetDate,
                               transactions, nextId>>
           ELSE /\ children' = [i \in 1..Len(children) |->
                                    ResetChild(children[i], today)]
                /\ tasks' = [i \in 1..Len(tasks) |->
                                [tasks[i] EXCEPT !.completions = 0]]
                /\ strikes' = SelectSeq(strikes, KeepToday)
                /\ lastResetDate' = today
                /\ transactions' = newTransactions \o transactions
                /\ nextId' = nextId + Len(newTransactions)
                /\ result' = ResetResult(TRUE, earningsDeposited,
                                         interestEarned)
                /\ resetLog' = [polled |-> now, performed |-> now,
                                before |-> resetLog.performed]
        /\ UNCHANGED <<currentChildId, vault, pendingRequests, requestHistory,
                       approvedNotifications, clock>>
checkAndPerformDailyReset ==
    LET today == getTodayDate
        newTransactions == ResetTransactions(children, nextId)
        KeepToday(s) == s.day = today
        earningsDeposited ==
            SumSeq([i \in 1..Len(children) |-> children[i].pendingEarnings])
        interestEarned ==
            SumSeq([i \in 1..Len(children) |->
                      calculateDailyInterest(children[i].savings).wholeAmount])
    IN  /\ Step("checkAndPerformDailyReset")
        /\ IF ~shouldResetToday(lastResetDate)
           THEN /\ result' = ResetResult(FALSE, 0, 0)
                /\ resetLog' = [resetLog EXCEPT !.polled = now]
                /\ UNCHANGED <<children, tasks, strikes, lastResetDate,
                               transactions, nextId>>
           ELSE /\ children' = [i \in 1..Len(children) |->
                                    ResetChild(children[i], today)]
                /\ tasks' = [i \in 1..Len(tasks) |->
                                [tasks[i] EXCEPT !.completions = 0]]
                /\ strikes' = SelectSeq(strikes, KeepToday)
                /\ lastResetDate' = today
                /\ transactions' = newTransactions \o transactions
                /\ nextId' = nextId + Len(newTransactions)
                /\ result' = ResetResult(TRUE, earningsDeposited,
                                         interestEarned)
                /\ resetLog' = [polled |-> now, performed |-> now,
                                before |-> resetLog.performed]
        /\ UNCHANGED <<currentChildId, vault, pendingRequests, requestHistory,
                       approvedNotifications, clock>>

\* ------------------------------------------------------------------------
\* Savings
\* ------------------------------------------------------------------------
\* amount <= 0
InvalidAmount_AllowsZero(amount) == amount < 0
InvalidAmount(amount) == amount <= 0

\* amount > child.balance
ExceedsFunds_Strict(amount, funds) == amount >= funds
ExceedsFunds_Never(amount, funds) == FALSE
ExceedsFunds(amount, funds) == amount > funds

depositToSavings(amount) ==
    LET child == getCurrentChild
        transaction == [id |-> nextId, childId |-> child.id,
                        type |-> "savings_deposit", amount |-> -amount]
    IN  /\ Step("depositToSavings")
        /\ IF InvalidAmount(amount)
           THEN /\ result' = Result("depositToSavings", amount, FALSE,
                                    "Amount must be positive", 0)
                /\ UNCHANGED <<children, transactions, nextId>>
           ELSE IF ExceedsFunds(amount, child.balance)
           THEN /\ result' = Result("depositToSavings", amount, FALSE,
                                    "Not enough balance", 0)
                /\ UNCHANGED <<children, transactions, nextId>>
           ELSE /\ children' = [i \in 1..Len(children) |->
                    IF children[i].id = child.id
                    THEN [children[i] EXCEPT
                            !.balance = children[i].balance - amount,
                            !.savings = children[i].savings + amount]
                    ELSE children[i]]
                /\ transactions' = <<transaction>> \o transactions
                /\ nextId' = nextId + 1
                /\ result' = Result("depositToSavings", amount, TRUE,
                                    "Moved to savings", 0)
        /\ UNCHANGED <<currentChildId, vault, tasks, pendingRequests,
                       requestHistory, approvedNotifications, strikes,
                       lastResetDate, clock>>

withdrawFromSavings(amount) ==
    LET child == getCurrentChild
        transaction == [id |-> nextId, childId |-> child.id,
                        type |-> "savings_withdrawal", amount |-> amount]
    IN  /\ Step("withdrawFromSavings")
        /\ IF InvalidAmount(amount)
           THEN /\ result' = Result("withdrawFromSavings", amount, FALSE,
                                    "Amount must be positive", 0)
                /\ UNCHANGED <<children, transactions, nextId>>
           ELSE IF ExceedsFunds(amount, child.savings)
           THEN /\ result' = Result("withdrawFromSavings", amount, FALSE,
                                    "Not enough savings", 0)
                /\ UNCHANGED <<children, transactions, nextId>>
           ELSE /\ children' = [i \in 1..Len(children) |->
                    IF children[i].id = child.id
                    THEN [children[i] EXCEPT
                            !.balance = children[i].balance + amount,
                            !.savings = children[i].savings - amount]
                    ELSE children[i]]
                /\ transactions' = <<transaction>> \o transactions
                /\ nextId' = nextId + 1
                /\ result' = Result("withdrawFromSavings", amount, TRUE,
                                    "Withdrew from savings", 0)
        /\ UNCHANGED <<currentChildId, vault, tasks, pendingRequests,
                       requestHistory, approvedNotifications, strikes,
                       lastResetDate, clock>>

\* ------------------------------------------------------------------------
\* Spend requests
\* ------------------------------------------------------------------------
\* carts built from DEFAULT_SPEND_ITEMS 'iPad time' (spend-2, cost 1) and
\* 'Junk food' (spend-3, cost 5)
ItemLists ==
    { <<[spendItemId |-> 2, cost |-> 1, quantity |-> 2]>>,
      <<[spendItemId |-> 3, cost |-> 5, quantity |-> 1],
        [spendItemId |-> 2, cost |-> 1, quantity |-> 1]>> }

\* items.reduce((sum, item) => sum + item.cost * item.quantity, 0)
TotalCost_IgnoresQuantity(items) ==
    SumSeq([i \in 1..Len(items) |-> items[i].cost])
TotalCost(items) ==
    SumSeq([i \in 1..Len(items) |-> items[i].cost * items[i].quantity])

\* pendingRequests.find((r) => r.id === requestId); 0 when absent
RequestIndex(requestId) ==
    IF \E i \in 1..Len(pendingRequests) : pendingRequests[i].id = requestId
    THEN CHOOSE i \in 1..Len(pendingRequests) :
            /\ pendingRequests[i].id = requestId
            /\ \A j \in 1..(i - 1) : pendingRequests[j].id # requestId
    ELSE 0

createSpendRequest(items) ==
    LET child == getCurrentChild
        existingPending ==
            {i \in 1..Len(pendingRequests) :
                /\ pendingRequests[i].childId = child.id
                /\ pendingRequests[i].status = "pending"}
        totalCost == TotalCost(items)
        newRequest == [id |-> nextId, childId |-> child.id, items |-> items,
                       totalCost |-> totalCost, status |-> "pending"]
    IN  /\ Step("createSpendRequest")
        /\ IF existingPending # {}
           THEN /\ result' = Result("createSpendRequest", items, FALSE,
                                    "You already have a pending request!",
                                    NoId)
                /\ UNCHANGED <<pendingRequests, nextId>>
           ELSE IF ExceedsFunds(totalCost, child.balance)
           THEN /\ result' = Result("createSpendRequest", items, FALSE,
                                    "Not enough Dada Bucks!", NoId)
                /\ UNCHANGED <<pendingRequests, nextId>>
           ELSE /\ pendingRequests' = Append(pendingRequests, newRequest)
                /\ nextId' = nextId + 1
                /\ result' = Result("createSpendRequest", items, TRUE,
                                    "Request sent to parent for approval!",
                                    nextId)
        /\ UNCHANGED <<children, currentChildId, vault, tasks, transactions,
                       requestHistory, approvedNotifications, strikes,
                       lastResetDate, clock>>

\* pendingRequests.filter((r) => r.id !== requestId)
RemoveRequest_Keeps(requests, requestId) == requests
RemoveRequest(requests, requestId) ==
    LET Others(r) == r.id # requestId
    IN  SelectSeq(requests, Others)

cancelSpendRequest(requestId) ==
    /\ Step("cancelSpendRequest")
    /\ pendingRequests' = RemoveRequest(pendingRequests, requestId)
    /\ result' = Result("cancelSpendRequest", requestId, TRUE, "", 0)
    /\ UNCHANGED <<children, currentChildId, vault, tasks, transactions,
                   requestHistory, approvedNotifications, strikes,
                   lastResetDate, clock, nextId>>

\* the lists after denyRequest(requestId) found the request at index ri
DenyMove_Drops(ri) ==
    LET request == pendingRequests[ri]
    IN  /\ pendingRequests' = RemoveRequest(pendingRequests, request.id)
        /\ UNCHANGED requestHistory
DenyMove_KeepsStatus(ri) ==
    LET request == pendingRequests[ri]
    IN  /\ pendingRequests' = RemoveRequest(pendingRequests, request.id)
        /\ requestHistory' = <<request>> \o requestHistory
DenyMove(ri) ==
    LET request == pendingRequests[ri]
    IN  /\ pendingRequests' = RemoveRequest(pendingRequests, request.id)
        /\ requestHistory' =
              <<[request EXCEPT !.status = "denied"]>> \o requestHistory

\* request.totalCost: the amount an approval moves
ApprovalCost_Refund(request) == -request.totalCost
ApprovalCost(request) == request.totalCost

approveRequest(requestId) ==
    LET ri == RequestIndex(requestId)
        request == pendingRequests[ri]
        ci == ChildIndex(request.childId)
        child == children[ci]
        cost == ApprovalCost(request)
        transaction == [id |-> nextId, childId |-> child.id, type |-> "spend",
                        amount |-> -cost]
        notification == [requestId |-> request.id, items |-> request.items,
                         totalCost |-> request.totalCost, approvedAt |-> now,
                         shownToChild |-> FALSE]
    IN  /\ Step("approveRequest")
        /\ IF ri = 0
           THEN /\ result' = Result("approveRequest", requestId, FALSE,
                                    "Request not found", 0)
                /\ UNCHANGED <<pendingRequests, requestHistory,
                               approvedNotifications, children, vault,
                               transactions, nextId>>
           ELSE IF ci = 0
           THEN /\ result' = Result("approveRequest", requestId, FALSE,
                                    "Child not found", 0)
                /\ UNCHANGED <<pendingRequests, requestHistory,
                               approvedNotifications, children, vault,
                               transactions, nextId>>
           ELSE IF ExceedsFunds(request.totalCost, child.balance)
           THEN /\ DenyMove(ri)
                /\ result' = Result("approveRequest", requestId, FALSE,
                                    "Child no longer has enough balance", 0)
                /\ UNCHANGED <<approvedNotifications, children, vault,
                               transactions, nextId>>
           ELSE /\ pendingRequests' = RemoveRequest(pendingRequests, requestId)
                /\ requestHistory' =
                      <<[request EXCEPT !.status = "approved"]>>
                          \o requestHistory
                /\ approvedNotifications' =
                      <<notification>> \o approvedNotifications
                /\ children' = [i \in 1..Len(children) |->
                    IF children[i].id = child.id
                    THEN [children[i] EXCEPT
                            !.balance = children[i].balance - cost,
                            !.totalSpent = children[i].totalSpent + cost]
                    ELSE children[i]]
                /\ vault' = [vault EXCEPT !.balance =
                                CreditVault(vault.balance, cost)]
                /\ transactions' = <<transaction>> \o transactions
                /\ nextId' = nextId + 1
                /\ result' = Result("approveRequest", requestId, TRUE,
                                    "Request approved!", cost)
        /\ UNCHANGED <<currentChildId, tasks, strikes, lastResetDate, clock>>

denyRequest(requestId) ==
    LET ri == RequestIndex(requestId)
    IN  /\ Step("denyRequest")
        /\ IF ri = 0
           THEN /\ result' = Result("denyRequest", requestId, FALSE, "", 0)
                /\ UNCHANGED <<pendingRequests, requestHistory>>
           ELSE /\ DenyMove(ri)
                /\ result' = Result("denyRequest", requestId, TRUE, "", 0)
        /\ UNCHANGED <<children, currentChildId, vault, tasks, transactions,
                       approvedNotifications, strikes, lastResetDate, clock,
                       nextId>>

\* ------------------------------------------------------------------------
\* Approved-request notifications
\* ------------------------------------------------------------------------
\* approvedNotifications.map((n) => n.requestId === requestId ? shown : n)
MarkShown_All(notifications, requestId) ==
    [i \in 1..Len(notifications) |->
        [notifications[i] EXCEPT !.shownToChild = TRUE]]
MarkShown(notifications, requestId) ==
    [i \in 1..Len(notifications) |->
        IF notifications[i].requestId = requestId
        THEN [notifications[i] EXCEPT !.shownToChild = TRUE]
        ELSE notifications[i]]

markNotificationShown(requestId) ==
    /\ Step("markNotificationShown")
    /\ approvedNotifications' = MarkShown(approvedNotifications, requestId)
    /\ result' = Result("markNotificationShown", requestId, TRUE, "", 0)
    /\ UNCHANGED <<children, currentChildId, vault, tasks, transactions,
                   pendingRequests, requestHistory, strikes, lastResetDate,
                   clock, nextId>>

\* approvedNotifications.filter((n) => !n.shownToChild && n.items.length > 0)
getUnshownApprovedRequests ==
    LET Unshown(n) == ~n.shownToChild /\ Len(n.items) > 0
    IN  SelectSeq(approvedNotifications, Unshown)

\* a call of the store's getUnshownApprovedRequests
getUnshownApprovedRequestsCall ==
    /\ Step("getUnshownApprovedRequests")
    /\ result' = Result("getUnshownApprovedRequests", NoId, TRUE, "",
                        getUnshownApprovedRequests)
    /\ UNCHANGED <<store, clock, nextId>>

\* ------------------------------------------------------------------------
\* Reset of the whole store
\* ------------------------------------------------------------------------
resetAll ==
    /\ Step("resetAll")
    /\ children' = <<createDefaultChild(nextId, getTodayDate)>>
    /\ currentChildId' = NoId
    /\ vault' = createDefaultVault
    /\ tasks' = createInitialTasks
    /\ transactions' = <<>>
    /\ pendingRequests' = <<>>
    /\ requestHistory' = <<>>
    /\ approvedNotifications' = <<>>
    /\ strikes' = <<>>
    /\ lastResetDate' = getTodayDate
    /\ nextId' = nextId + 1
    /\ result' = Result("resetAll", NoId, TRUE, "", 0)
    /\ UNCHANGED clock

\* ------------------------------------------------------------------------
\* Specifications
\* ------------------------------------------------------------------------
ChildIds == {children[i].id : i \in 1..Len(children)}
StrikeIds == {strikes[i].id : i \in 1..Len(strikes)}
RequestIds == {pendingRequests[i].id : i \in 1..Len(pendingRequests)}
                 \cup {requestHistory[i].id : i \in 1..Len(requestHistory)}
\* the task rows the edit form is opened on
TaskRowIds == {tasks[i].id : i \in 1..Len(tasks)}
\* amounts of 50 and more exceed what a child can hold outside the interest
\* scope and are passed only there; the amounts that are not positive are
\* refused whatever the state and are passed only in the scope "all"
ScenarioAmounts == {a \in SavingsAmounts \cup WithdrawAmounts : a >= 50}
ScopeAmounts(amounts) ==
    CASE scope = "interest" -> {a \in amounts : a > 0}
      [] scope = "all" -> amounts \ ScenarioAmounts
      [] OTHER -> {a \in amounts \ ScenarioAmounts : a > 0}
DepositInputs == ScopeAmounts(SavingsAmounts)
WithdrawInputs == ScopeAmounts(WithdrawAmounts)
\* the family scope moves the clock by whole days
TickInputs == IF scope = "family" THEN {h \in TickHours : h = HoursPerDay}
              ELSE TickHours
\* deleteChild is called with the ids of the children and with no child's id
DeleteInputs == ChildIds \cup {NoId}
\* the cancel scope also passes an id no request ever had
UnknownRequestIds == IF scope = "cancel" THEN {NoId} ELSE {}
\* the cancel scope also sends a request without items
EmptyCarts == IF scope = "cancel" THEN {<<>>} ELSE {}
NotificationIds ==
    {approvedNotifications[i].requestId : i \in 1..Len(approvedNotifications)}

Next ==
    \/ addChild
    \/ \E id \in ChildIds : switchChild(id)
    \/ \E id \in DeleteInputs : deleteChild(id)
    \/ \E u \in ChildUpdates : updateChild(getCurrentChild.id, u)
    \/ resetAll
    \/ \E t \in TaskRowIds : \E u \in TaskUpdates : updateTask(t, u)
    \/ \E t \in TaskIdInputs : toggleTaskActive(t)
    \/ \E t \in TaskIdInputs : completeTask(t)
    \/ \E t \in TaskIdInputs : undoTaskCompletion(t)
    \/ addStrike
    \/ \E id \in StrikeIds : removeStrike(id)
    \/ resetStrikes
    \/ checkAndPerformDailyReset
    \/ \E a \in DepositInputs : depositToSavings(a)
    \/ \E a \in WithdrawInputs : withdrawFromSavings(a)
    \/ \E items \in ItemLists \cup EmptyCarts : createSpendRequest(items)
    \/ \E id \in RequestIds \cup UnknownRequestIds : approveRequest(id)
    \/ \E id \in RequestIds \cup UnknownRequestIds : denyRequest(id)
    \/ \E id \in RequestIds \cup UnknownRequestIds : cancelSpendRequest(id)
    \/ \E id \in NotificationIds : markNotificationShown(id)
    \/ getUnshownApprovedRequestsCall
    \/ \E a \in VaultAmounts : addToVault(a)
    \/ \E a \in VaultAmounts : removeFromVault(a)
    \/ \E h \in TickInputs : Tick(h)
    \/ \E s \in 0..MaxSavingsBalance : calculateDailyInterestCall(s)

Spec == Init /\ [][Next]_vars

\* ------------------------------------------------------------------------
\* Properties
\* ------------------------------------------------------------------------
PendingTotal ==
    SumSeq([i \in 1..Len(children) |-> children[i].pendingEarnings])
BalanceTotal == SumSeq([i \in 1..Len(children) |-> children[i].balance])
SavingsTotal == SumSeq([i \in 1..Len(children) |-> children[i].savings])
MoneySupply == vault.balance + BalanceTotal + SavingsTotal + PendingTotal

ActingId == getCurrentChild.id
ActingPending == getCurrentChild.pendingEarnings
ActingStrikesToday == TodayStrikes(strikes, ActingId, getTodayDate)

\* C1: completeTask, undoTaskCompletion, addStrike, createSpendRequest,
\* approveRequest and denyRequest leave vault.balance plus the sum over all
\* children of balance + savings + pendingEarnings unchanged.
Conservation ==
    [][result'.op \in {"completeTask", "undoTaskCompletion", "addStrike",
                       "createSpendRequest", "approveRequest", "denyRequest"}
          => MoneySupply' = MoneySupply]_vars

\* C2: what undoTaskCompletion, a forfeiting addStrike and approveRequest add
\* to the vault is exactly what they take from the child: from the acting
\* child's pendingEarnings (undo, forfeiture), from the owner's balance
\* (approval).
VaultCreditExact ==
    [][/\ (result'.op \in {"undoTaskCompletion", "addStrike"}
              /\ result'.success)
          => vault'.balance - vault.balance = ActingPending - ActingPending'
       /\ (result'.op = "approveRequest" /\ result'.success)
          => vault'.balance - vault.balance = BalanceTotal - BalanceTotal'
      ]_vars

\* C3: every child's balance, savings and pendingEarnings are >= 0 in every
\* reachable state.
NonNegative ==
    \A i \in 1..Len(children) :
        /\ children[i].balance >= 0
        /\ children[i].savings >= 0
        /\ children[i].pendingEarnings >= 0

\* C3 witness: approveRequest met a balance that no longer covers the request
\* (part of it was moved to savings) and refused to debit it.
NonNegativeWitness ==
    /\ result.op = "approveRequest"
    /\ result.message = "Child no longer has enough balance"
    /\ \E i \in 1..Len(children) :
          /\ children[i].savings > 0
          /\ children[i].balance < requestHistory[1].totalCost
          /\ children[i].id = requestHistory[1].childId

CompleteTaskFailures ==
    [][result'.op = "completeTask" =>
        LET ti == TaskIndex(result'.arg)
            absent == ti = 0
            inactive == ~tasks[ti].isActive
            exhausted == ActingStrikesToday >= MAX_STRIKES
            capped == tasks[ti].completions >= tasks[ti].dailyMax
            short == vault.balance < tasks[ti].payout
        IN  /\ absent => result'.message = "Task not found"
            /\ (~absent /\ inactive)
                  => result'.message = "This task is not active"
            /\ (~absent /\ ~inactive /\ exhausted)
                  => result'.message =
                        "Cannot earn - 3 strikes today! All earnings forfeited."
            /\ (~absent /\ ~inactive /\ ~exhausted /\ capped)
                  => result'.message = "Daily limit reached"
            /\ (~absent /\ ~inactive /\ ~exhausted /\ ~capped /\ short)
                  => result'.message = "Vault is empty! Add more Dada Bucks."
            /\ result'.success
                  <=> (~absent /\ ~inactive /\ ~exhausted /\ ~capped /\ ~short)
            /\ ~result'.success => UNCHANGED <<store, clock, nextId>>
      ]_vars

\* C5 witness: a completeTask refused for the strikes although the vault could
\* not have paid the task either.
CompleteTaskFailuresWitness ==
    /\ result.op = "completeTask"
    /\ result.message = "Cannot earn - 3 strikes today! All earnings forfeited."
    /\ TaskIndex(result.arg) # 0
    /\ vault.balance < tasks[TaskIndex(result.arg)].payout

\* C6: a successful completeTask adds 1 to the task's completions, payout to
\* the acting child's pendingEarnings, takes payout from the vault, and leaves
\* every other field of every child and the transaction log unchanged.
CompleteTaskEffect ==
    [][(result'.op = "completeTask" /\ result'.success) =>
        LET ti == TaskIndex(result'.arg)
            payout == tasks[ti].payout
        IN  /\ ti # 0
            /\ tasks' = [tasks EXCEPT ![ti].completions = @ + 1]
            /\ children' = [i \in 1..Len(children) |->
                  IF children[i].id = ActingId
                  THEN [children[i] EXCEPT !.pendingEarnings = @ + payout]
                  ELSE children[i]]
            /\ vault'.balance = vault.balance - payout
            /\ transactions' = transactions
            /\ result'.value = payout
      ]_vars

\* C6 witness: a second successful completion, pending earnings accumulating.
CompleteTaskEffectWitness ==
    /\ result.op = "completeTask"
    /\ result.success
    /\ ActingPending > result.value
    /\ vault.balance = VAULT_MAX - PendingTotal

\* C7: no child has more than MAX_STRIKES strike records for one day.
StrikesPerDayBounded ==
    \A i \in 1..Len(strikes) :
        TodayStrikes(strikes, strikes[i].childId, strikes[i].day) <= MAX_STRIKES

\* C7 witness: the cap reached for one child and day while strikes of another
\* child or day are on record.
StrikesPerDayBoundedWitness ==
    /\ Len(strikes) > MAX_STRIKES
    /\ \E i \in 1..Len(strikes) :
          TodayStrikes(strikes, strikes[i].childId, strikes[i].day) = MAX_STRIKES

\* C8: addStrike called when the acting child has MAX_STRIKES strikes today
\* returns success false and changes nothing.
AddStrikeAtCapNoOp ==
    [][(result'.op = "addStrike" /\ ActingStrikesToday >= MAX_STRIKES)
          => (~result'.success /\ UNCHANGED <<store, clock, nextId>>)]_vars

\* C8 witness: addStrike refused at the cap.
AddStrikeAtCapNoOpWitness ==
    /\ result.op = "addStrike"
    /\ ~result.success
    /\ ActingStrikesToday = MAX_STRIKES

\* C9: the addStrike that brings today's count to MAX_STRIKES zeroes the
\* acting child's pendingEarnings, raises the vault by the forfeited amount,
\* prepends one strike_penalty of -forfeited when forfeited > 0 and nothing
\* when it is 0, and changes no other child.
ForfeitureCreditsVault ==
    [][(result'.op = "addStrike" /\ ActingStrikesToday = MAX_STRIKES - 1) =>
        LET forfeited == ActingPending
        IN  /\ children' = [i \in 1..Len(children) |->
                  IF children[i].id = ActingId
                  THEN [children[i] EXCEPT !.pendingEarnings = 0]
                  ELSE children[i]]
            /\ vault'.balance = vault.balance + forfeited
            /\ forfeited = 0 => transactions' = transactions
            /\ forfeited > 0 =>
                  /\ Len(transactions') = Len(transactions) + 1
                  /\ Tail(transactions') = transactions
                  /\ Head(transactions').type = "strike_penalty"
                  /\ Head(transactions').amount = -forfeited
                  /\ Head(transactions').childId = ActingId
      ]_vars

\* C10: an addStrike that leaves today's count below MAX_STRIKES changes only
\* the strikes list; the one that reaches MAX_STRIKES zeroes the acting child's
\* pendingEarnings and reports them forfeited; resetStrikes empties the list,
\* and addStrike succeeds whenever today's count is below MAX_STRIKES, whatever
\* was forfeited before.
ForfeitureEdgeTriggered ==
    [][/\ (result'.op = "addStrike" /\ ActingStrikesToday < MAX_STRIKES - 1)
          => /\ result'.success
             /\ Len(strikes') = Len(strikes) + 1
             /\ UNCHANGED <<children, vault, transactions>>
       /\ (result'.op = "addStrike" /\ ActingStrikesToday = MAX_STRIKES - 1)
          => /\ result'.success
             /\ Len(strikes') = Len(strikes) + 1
             /\ result'.value = ActingPending
             /\ ActingPending' = 0
             /\ ActingStrikesToday' = MAX_STRIKES
       /\ result'.op = "resetStrikes"
          => /\ strikes' = <<>>
             /\ UNCHANGED <<children, vault, transactions>>
      ]_vars

\* C10 witness: a second forfeiture of the same child on the same day, by the
\* third strike given after resetStrikes.
ForfeitureEdgeTriggeredWitness ==
    /\ result.op = "addStrike"
    /\ result.value > 0
    /\ Len(strikes) = MAX_STRIKES
    /\ Len(transactions) = 2
    /\ transactions[1].type = "strike_penalty"
    /\ transactions[2].type = "strike_penalty"
    /\ transactions[1].childId = transactions[2].childId
    /\ scope = "strike"

\* ------------------------------------------------------------------------
\* Daily reset
\* ------------------------------------------------------------------------
ResetCalled == result.op = "checkAndPerformDailyReset"
ResetPerformed == ResetCalled /\ result.success

\* C11: of two calls of checkAndPerformDailyReset in immediate succession,
\* at one clock reading, at most one resets: after a call that returned
\* didReset true the next call returns didReset false and changes no state.
ResetIdempotent ==
    [][(ResetPerformed /\ ResetCalled')
          => (~result'.success /\ UNCHANGED <<store, nextId>>)]_vars

\* a call refused at the clock reading of a performed catch-up reset, in the
\* local morning while the UTC date is still the day before
ResetIdempotentWitness ==
    /\ ResetCalled /\ ~result.success
    /\ resetLog.performed = now /\ resetLog.before < now
    /\ getTodayDate < now \div HoursPerDay

\* 22:00 local time of a day, and the local day of the clock
Cutover(day) == day * HoursPerDay + RESET_HOUR
LocalDay == now \div HoursPerDay
\* the latest cutover at or before the clock
LastCutover ==
    IF now >= Cutover(LocalDay) THEN Cutover(LocalDay)
    ELSE Cutover(LocalDay - 1)

\* C12: a reset is due exactly when now is at or after today's 22:00 and the
\* cutover of lastResetDate is before today's cutover, or the cutover of
\* lastResetDate is before yesterday's cutover; checkAndPerformDailyReset
\* returns didReset true exactly then and changes no state otherwise.
ResetDueExactly ==
    [][ResetCalled' =>
          LET due == \/ /\ now >= Cutover(LocalDay)
                        /\ Cutover(lastResetDate) < Cutover(LocalDay)
                     \/ Cutover(lastResetDate) < Cutover(LocalDay - 1)
          IN  /\ result'.success <=> due
              /\ ~due => UNCHANGED <<store, nextId>>]_vars

\* a reset performed before 22:00, through the missed cutover of the day
\* before
ResetDueExactlyWitness ==
    /\ ResetPerformed
    /\ now < Cutover(LocalDay)
    /\ resetLog.before < Cutover(LocalDay - 1)

\* C13: when the reset check is called at least once between consecutive
\* cutovers, the first call at or after each cutover returns didReset true
\* and leaves every child with pendingEarnings 0 and the amount in balance.
ReleasedAtEveryCutover ==
    [][(/\ ResetCalled'
        /\ resetLog.polled < LastCutover
        /\ resetLog.polled >= LastCutover - HoursPerDay)
          => /\ result'.success
             /\ \A i \in 1..Len(children) :
                   /\ children'[i].pendingEarnings = 0
                   /\ children'[i].balance =
                         children[i].balance + children[i].pendingEarnings]_vars

\* a reset has been performed since the store was created
ResetBefore == resetLog.before < resetLog.performed

\* C14: with reset checks interleaved with the other operations, at most one
\* call returns didReset true between two consecutive cutovers, and a reset
\* call moves pendingEarnings into balance at most once: what it adds to a
\* balance it takes from that child's pendingEarnings.
ResetOncePerWindow ==
    [][ResetCalled' =>
          /\ (result'.success /\ ResetBefore)
                => resetLog.performed < LastCutover
          /\ \A i \in 1..Len(children) :
                children'[i].balance + children'[i].pendingEarnings =
                    children[i].balance + children[i].pendingEarnings]_vars

\* two performed resets in consecutive windows, each releasing earnings
\* completed in between
ResetOncePerWindowWitness ==
    /\ ResetPerformed
    /\ result.value > 0
    /\ resetLog.before < LastCutover
    /\ resetLog.before >= LastCutover - HoursPerDay
    /\ Len(children) = 1
    /\ Len(transactions) >= 2
    /\ transactions[1].type = "earn"
    /\ transactions[2].type = "earn"

\* the transactions a step put in front of the log
AddedCount == Len(transactions') - Len(transactions)
Added == SubSeq(transactions', 1, AddedCount)
AddedOf(type, childId) ==
    {k \in 1..AddedCount :
        Added[k].type = type /\ Added[k].childId = childId}
LogExtended ==
    /\ AddedCount >= 0
    /\ SubSeq(transactions', AddedCount + 1, Len(transactions')) = transactions

ResetClearsStrikes ==
    ResetPerformed =>
        \A i \in 1..Len(children) :
            TodayStrikes(strikes, children[i].id, getTodayDate) = 0

\* ------------------------------------------------------------------------
\* Tasks
\* ------------------------------------------------------------------------
\* C17: every task has 0 <= completions <= dailyMax at all times, also after
\* updateTask edits of dailyMax and after undoTaskCompletion, and right after
\* a performed reset every task's completions is 0.
CompletionsInRange ==
    /\ \A i \in 1..Len(tasks) :
          0 <= tasks[i].completions /\ tasks[i].completions <= tasks[i].dailyMax
    /\ ResetPerformed => \A i \in 1..Len(tasks) : tasks[i].completions = 0

\* ------------------------------------------------------------------------
\* Savings interest
\* ------------------------------------------------------------------------
\* C18: for every integer savings balance s >= 0, calculateDailyInterest(s)
\* returns wholeAmount = s div 100 and newAccrued = s mod 100; in particular
\* (0, 0) for 0, (1, 0) for 100 and (2, 50) for 250.
InterestIsDivMod ==
    result.op = "calculateDailyInterest" =>
        /\ result.value = result.arg \div 100
        /\ result.newAccrued = result.arg % 100
        /\ result.arg = 0 => (result.value = 0 /\ result.newAccrued = 0)
        /\ result.arg = 100 => (result.value = 1 /\ result.newAccrued = 0)
        /\ result.arg = 250 => (result.value = 2 /\ result.newAccrued = 50)

\* the call with 250 returned (2, 50)
InterestIsDivModWitness ==
    /\ result.op = "calculateDailyInterest"
    /\ result.arg = 250
    /\ result.value = 2
    /\ result.newAccrued = 50

\* C19: a performed reset applies interest once per child, however many
\* cutovers were missed: savings becomes savings + savings div 100 and
\* savingsInterestAccrued becomes savings mod 100, both from the pre-reset
\* savings only (the carry in savingsInterestAccrued is not read), with one
\* interest transaction of savings div 100 exactly when it is positive; the
\* call that immediately follows applies no further interest.
ResetAppliesInterestOnce ==
    [][ResetCalled' =>
          /\ LogExtended
          /\ result'.success =>
                \A i \in 1..Len(children) :
                    LET c == children[i]
                        d == children'[i]
                    IN  /\ d.savings = c.savings + c.savings \div 100
                        /\ d.savingsInterestAccrued = c.savings % 100
                        /\ Cardinality(AddedOf("interest", c.id)) =
                              IF c.savings \div 100 > 0 THEN 1 ELSE 0
                        /\ \A k \in AddedOf("interest", c.id) :
                              Added[k].amount = c.savings \div 100
          /\ ResetPerformed =>
                /\ AddedCount = 0
                /\ \A i \in 1..Len(children) :
                      /\ children'[i].savings = children[i].savings
                      /\ children'[i].savingsInterestAccrued =
                            children[i].savingsInterestAccrued]_vars

\* interest paid by a reset performed two days after the one before it
ResetAppliesInterestOnceWitness ==
    /\ ResetPerformed
    /\ result.interestEarned > 0
    /\ ResetBefore
    /\ now - resetLog.before >= 2 * HoursPerDay
    /\ \E k \in 1..Len(transactions) :
          /\ transactions[k].type = "interest"
          /\ transactions[k].amount = result.interestEarned

\* C20: depositToSavings fails and changes nothing when amount <= 0 or
\* amount > the acting child's balance, withdrawFromSavings when amount <= 0
\* or amount > the acting child's savings; otherwise exactly amount moves
\* between that child's balance and savings, one transaction is put in front
\* of the log (savings_deposit of -amount, savings_withdrawal of +amount) and
\* the vault is unchanged.
SavingsMoves ==
    [][result'.op \in {"depositToSavings", "withdrawFromSavings"} =>
          LET amount == result'.arg
              deposit == result'.op = "depositToSavings"
              child == getCurrentChild
              limit == IF deposit THEN child.balance ELSE child.savings
              moved == IF deposit THEN amount ELSE -amount
          IN  IF amount <= 0 \/ amount > limit
              THEN ~result'.success /\ UNCHANGED <<store, nextId>>
              ELSE /\ result'.success
                   /\ vault' = vault
                   /\ LogExtended /\ AddedCount = 1
                   /\ Added[1].childId = child.id
                   /\ Added[1].type = IF deposit THEN "savings_deposit"
                                      ELSE "savings_withdrawal"
                   /\ Added[1].amount = -moved
                   /\ children' = [i \in 1..Len(children) |->
                         IF children[i].id = child.id
                         THEN [children[i] EXCEPT
                                 !.balance = children[i].balance - moved,
                                 !.savings = children[i].savings + moved]
                         ELSE children[i]]
                   /\ UNCHANGED <<currentChildId, tasks, pendingRequests,
                                  requestHistory, approvedNotifications,
                                  strikes, lastResetDate>>]_vars

\* a withdrawal that succeeded and put the amount back into the balance
SavingsMovesWitness ==
    /\ result.op = "withdrawFromSavings"
    /\ result.success
    /\ result.arg > 0
    /\ transactions[1].type = "savings_withdrawal"
    /\ transactions[1].amount = result.arg
    /\ getCurrentChild.balance >= result.arg

\* ------------------------------------------------------------------------
\* Savings round trip
\* ------------------------------------------------------------------------
SavingsOps == {"depositToSavings", "withdrawFromSavings"}
\* the logged savings events of a child, newest first, and what an entry
\* did to the child's savings
SavingsLog(childId) ==
    LET OfChild(t) == /\ t.childId = childId
                      /\ t.type \in {"savings_deposit", "interest",
                                      "savings_withdrawal"}
    IN  SelectSeq(transactions, OfChild)
SavingsEffect(t) == IF t.type = "interest" THEN t.amount ELSE -t.amount
SavingsBefore(log, n) ==
    SumSeq([k \in 1..(Len(log) - n) |-> SavingsEffect(log[k + n])])
IsEntry(t, type, amount) == t.type = type /\ t.amount = amount

\* a successful deposit or withdrawal keeps balance + savings of the acting
\* child and the vault; withdrawFromSavings(a) right after a successful
\* depositToSavings(a) succeeds and undoes it; deposits, withdrawals and
\* resets leave the vault alone
RoundTripSteps ==
    /\ (result'.op \in SavingsOps /\ result'.success) =>
          /\ getCurrentChild'.balance + getCurrentChild'.savings =
                getCurrentChild.balance + getCurrentChild.savings
          /\ result'.op = "depositToSavings" =>
                /\ getCurrentChild'.balance =
                      getCurrentChild.balance - result'.arg
                /\ getCurrentChild'.savings =
                      getCurrentChild.savings + result'.arg
    /\ (/\ result.op = "depositToSavings" /\ result.success
        /\ result'.op = "withdrawFromSavings" /\ result'.arg = result.arg) =>
          /\ result'.success
          /\ getCurrentChild'.balance = getCurrentChild.balance + result.arg
          /\ getCurrentChild'.savings = getCurrentChild.savings - result.arg
    /\ (result'.op \in SavingsOps \/ ResetCalled') => vault' = vault

\* the scenario is read in the states a reset or a withdrawal leaves
ScenarioStep ==
    result.op \in {"checkAndPerformDailyReset", "withdrawFromSavings"}
\* the child's log shows deposit 100, then one reset with interest; or those
\* followed by withdraw 50
AfterDepositReset(c) ==
    LET log == SavingsLog(c.id)
    IN  /\ Len(log) >= 2
        /\ log[1].type = "interest"
        /\ IsEntry(log[2], "savings_deposit", -100)
AfterDepositResetWithdraw(c) ==
    LET log == SavingsLog(c.id)
    IN  /\ Len(log) >= 3
        /\ IsEntry(log[1], "savings_withdrawal", 50)
        /\ log[2].type = "interest"
        /\ IsEntry(log[3], "savings_deposit", -100)

\* C21 (as stated): the round-trip steps, and deposit 100 / reset / withdraw
\* 50 gives savings = initial + 100 + 1 (then - 50) with carry 0, for every
\* initial savings.
SavingsScenarioAnyInitial ==
    ScenarioStep => \A i \in 1..Len(children) :
        LET c == children[i]
            log == SavingsLog(c.id)
        IN  /\ AfterDepositReset(c) =>
                  /\ c.savings = SavingsBefore(log, 2) + 100 + 1
                  /\ c.savingsInterestAccrued = 0
            /\ AfterDepositResetWithdraw(c) =>
                  /\ c.savings = SavingsBefore(log, 3) + 100 + 1 - 50
                  /\ c.savingsInterestAccrued = 0
SavingsRoundTripAsStated ==
    [][RoundTripSteps /\ SavingsScenarioAnyInitial']_vars

\* C21 (amended): the round-trip steps, and deposit 100 / reset / withdraw 50
\* gives savings = initial + 100 + (initial + 100) div 100 (then - 50) with
\* carry (initial + 100) mod 100; from initial savings 0 that is 51 with
\* carry 0.
SavingsScenario ==
    ScenarioStep => \A i \in 1..Len(children) :
        LET c == children[i]
            log == SavingsLog(c.id)
            saved2 == SavingsBefore(log, 2) + 100
            saved3 == SavingsBefore(log, 3) + 100
        IN  /\ AfterDepositReset(c) =>
                  /\ c.savings = saved2 + saved2 \div 100
                  /\ c.savingsInterestAccrued = saved2 % 100
            /\ AfterDepositResetWithdraw(c) =>
                  /\ c.savings = saved3 + saved3 \div 100 - 50
                  /\ c.savingsInterestAccrued = saved3 % 100
                  /\ SavingsBefore(log, 3) = 0 =>
                        (c.savings = 51 /\ c.savingsInterestAccrued = 0)
SavingsRoundTrip ==
    [][RoundTripSteps /\ SavingsScenario']_vars

\* deposit 100, reset with interest, withdraw 50, from savings 0
SavingsRoundTripWitness ==
    /\ result.op = "withdrawFromSavings" /\ result.success
    /\ AfterDepositResetWithdraw(getCurrentChild)
    /\ SavingsBefore(SavingsLog(getCurrentChild.id), 3) = 0
    /\ getCurrentChild.savings = 51

\* ------------------------------------------------------------------------
\* Spend requests
\* ------------------------------------------------------------------------
PendingOf(requests, childId) ==
    {i \in 1..Len(requests) :
        requests[i].childId = childId /\ requests[i].status = "pending"}
\* the request with this id is in the history, approved or denied
Settled(history, id) ==
    \E j \in 1..Len(history) :
        history[j].id = id /\ history[j].status \in {"approved", "denied"}

\* C22: each child has at most one request in pendingRequests;
\* createSpendRequest for a child with a pending request fails and changes
\* nothing; a child's pending request leaves pendingRequests, so that the
\* child can create again, only by being approved or denied.
RequestExclusive ==
    [][/\ \A i \in 1..Len(children') :
             Cardinality(PendingOf(pendingRequests', children'[i].id)) <= 1
       /\ (/\ result'.op = "createSpendRequest"
           /\ PendingOf(pendingRequests, getCurrentChild.id) # {})
             => (~result'.success /\ UNCHANGED <<store, nextId>>)
       /\ \A i \in 1..Len(pendingRequests) :
             PendingOf(pendingRequests', pendingRequests[i].childId) = {}
                => Settled(requestHistory', pendingRequests[i].id)]_vars

\* C26: a request only goes from pending to approved or to denied: every
\* request in pendingRequests has status pending and is, after any operation,
\* still there or in requestHistory as approved or denied, and every request
\* in requestHistory stays there as approved or denied.
RequestLifecycle ==
    [][/\ \A i \in 1..Len(pendingRequests') :
             pendingRequests'[i].status = "pending"
       /\ \A i \in 1..Len(pendingRequests) :
             \/ \E j \in 1..Len(pendingRequests') :
                   pendingRequests'[j] = pendingRequests[i]
             \/ Settled(requestHistory', pendingRequests[i].id)
       /\ \A i \in 1..Len(requestHistory) :
             Settled(requestHistory', requestHistory[i].id)
       /\ \A i \in 1..Len(requestHistory') :
             requestHistory'[i].status \in {"approved", "denied"}]_vars

\* C23: createSpendRequest fails and changes nothing when the sum of cost x
\* quantity over the items exceeds the acting child's balance; on success it
\* appends one pending request with that sum as totalCost and leaves every
\* child, the vault and the transaction log unchanged.
CreateRequestEffect ==
    [][result'.op = "createSpendRequest" =>
          LET items == result'.arg
              sum == SumSeq([k \in 1..Len(items) |->
                               items[k].cost * items[k].quantity])
              child == getCurrentChild
          IN  /\ sum > child.balance
                    => (~result'.success /\ UNCHANGED <<store, nextId>>)
              /\ result'.success =>
                    /\ Len(pendingRequests') = Len(pendingRequests) + 1
                    /\ SubSeq(pendingRequests', 1, Len(pendingRequests)) =
                          pendingRequests
                    /\ LET new == pendingRequests'[Len(pendingRequests')]
                       IN  /\ new.id = result'.value
                           /\ new.childId = child.id
                           /\ new.items = items
                           /\ new.totalCost = sum
                           /\ new.status = "pending"
                    /\ UNCHANGED <<children, vault, transactions,
                                   requestHistory, approvedNotifications>>]_vars

\* a request for one 'Junk food' and one 'iPad time' (6 in all) was created
\* and the balance still holds the 6
CreateRequestEffectWitness ==
    /\ result.op = "createSpendRequest" /\ result.success
    /\ Len(result.arg) > 1
    /\ pendingRequests[Len(pendingRequests)].totalCost = 6
    /\ getCurrentChild.balance >= 6

\* the owner and the amount of the request an approveRequest call names
ApprovedRequest == pendingRequests[RequestIndex(result'.arg)]
ApprovedOwner == ChildIndex(ApprovedRequest.childId)
Approved == result'.op = "approveRequest" /\ result'.success

\* C24: a successful approveRequest takes totalCost from the balance of the
\* child that owns the request and adds it to that child's totalSpent and to
\* the vault, prepends exactly one spend transaction of -totalCost, moves the
\* request from pendingRequests to requestHistory as approved and creates
\* exactly one notification for it, not yet shown.
ApprovalEffect ==
    [][Approved =>
          LET request == ApprovedRequest
              ci == ApprovedOwner
              total == request.totalCost
          IN  /\ RequestIndex(request.id) # 0 /\ ci # 0
              /\ children'[ci].balance = children[ci].balance - total
              /\ children'[ci].totalSpent = children[ci].totalSpent + total
              /\ vault'.balance = vault.balance + total
              /\ LogExtended /\ AddedCount = 1
              /\ Added[1].type = "spend" /\ Added[1].amount = -total
              /\ Added[1].childId = request.childId
              /\ \A i \in 1..Len(pendingRequests') :
                    pendingRequests'[i].id # request.id
              /\ requestHistory' =
                    <<[request EXCEPT !.status = "approved"]>>
                        \o requestHistory
              /\ Len(approvedNotifications') =
                    Len(approvedNotifications) + 1
              /\ SubSeq(approvedNotifications', 2,
                        Len(approvedNotifications')) = approvedNotifications
              /\ approvedNotifications'[1].requestId = request.id
              /\ ~approvedNotifications'[1].shownToChild]_vars

\* the request with this id has left the list
Gone(requests, id) == \A i \in 1..Len(requests) : requests[i].id # id

\* C25: approveRequest of a request whose totalCost exceeds the current
\* balance of the owning child fails, moves the request to requestHistory as
\* denied and changes no child, vault, transaction or notification;
\* approveRequest of an id that is not pending fails and changes nothing.
ApproveRevalidates ==
    [][result'.op = "approveRequest" =>
          LET ri == RequestIndex(result'.arg)
              request == pendingRequests[ri]
              ci == ChildIndex(request.childId)
          IN  /\ ri = 0 => (~result'.success /\ UNCHANGED <<store, nextId>>)
              /\ (ri # 0 /\ ci # 0) =>
                    IF children[ci].balance < request.totalCost
                    THEN /\ ~result'.success
                         /\ Gone(pendingRequests', request.id)
                         /\ requestHistory' =
                               <<[request EXCEPT !.status = "denied"]>>
                                   \o requestHistory
                         /\ UNCHANGED <<children, vault, transactions,
                                        approvedNotifications>>
                    ELSE result'.success]_vars

\* a request for 2 was created with balance 3, the 3 went to savings, and the
\* approval then failed and denied the request
ApproveRevalidatesWitness ==
    /\ result.op = "approveRequest" /\ ~result.success
    /\ Len(requestHistory) > 0
    /\ requestHistory[1].id = result.arg
    /\ requestHistory[1].status = "denied"
    /\ getCurrentChild.savings = 3 /\ getCurrentChild.balance = 0
    /\ approvedNotifications = <<>>

\* the entries of the history that carry this id
EntriesOf(history, id) == {j \in 1..Len(history) : history[j].id = id}

\* C27: the status, items and totalCost of a request in requestHistory never
\* change; it is the only entry of its id and is never in pendingRequests;
\* approveRequest or denyRequest called with its id changes nothing.
TerminalOneWay ==
    [][/\ \A i \in 1..Len(requestHistory) :
             \A j \in EntriesOf(requestHistory', requestHistory[i].id) :
                requestHistory'[j] = requestHistory[i]
       /\ \A j \in 1..Len(requestHistory') :
             /\ Cardinality(EntriesOf(requestHistory',
                                      requestHistory'[j].id)) = 1
             /\ Gone(pendingRequests', requestHistory'[j].id)
       /\ (/\ result'.op \in {"approveRequest", "denyRequest"}
           /\ EntriesOf(requestHistory, result'.arg) # {})
             => UNCHANGED <<store, nextId>>]_vars

\* approveRequest was called again with the id of the approved request
TerminalOneWayWitness ==
    /\ result.op = "approveRequest" /\ ~result.success
    /\ Len(requestHistory) = 1
    /\ requestHistory[1].id = result.arg
    /\ requestHistory[1].status = "approved"
    /\ Len(approvedNotifications) = 1 /\ Len(transactions) = 3

\* C28: denyRequest of a pending request moves it to requestHistory with
\* status denied and leaves every child, the vault, the transaction log and
\* approvedNotifications unchanged; denyRequest of an id that is not pending
\* changes nothing.
DenyEffect ==
    [][result'.op = "denyRequest" =>
          LET ri == RequestIndex(result'.arg)
              request == pendingRequests[ri]
          IN  IF ri = 0
              THEN UNCHANGED <<store, nextId>>
              ELSE /\ Gone(pendingRequests', request.id)
                   /\ Len(pendingRequests') = Len(pendingRequests) - 1
                   /\ requestHistory' =
                         <<[request EXCEPT !.status = "denied"]>>
                             \o requestHistory
                   /\ UNCHANGED <<children, vault, transactions,
                                  approvedNotifications>>]_vars

\* a request the child could pay was denied: the balance still covers it
DenyEffectWitness ==
    /\ result.op = "denyRequest" /\ result.success
    /\ Len(requestHistory) > 0
    /\ requestHistory[1].id = result.arg
    /\ requestHistory[1].status = "denied"
    /\ getCurrentChild.balance >= requestHistory[1].totalCost
    /\ requestHistory[1].childId = getCurrentChild.id

\* C29: the totalCost of a request is the sum of cost x quantity of its items
\* as createSpendRequest stored them and does not change while the request
\* is pending; an approval takes exactly that sum from the owner's balance
\* and adds exactly that sum to the vault.
TotalCostFixed ==
    [][/\ \A i \in 1..Len(pendingRequests) :
             \A j \in 1..Len(pendingRequests') :
                pendingRequests'[j].id = pendingRequests[i].id
                   => /\ pendingRequests'[j].items = pendingRequests[i].items
                      /\ pendingRequests'[j].totalCost =
                            pendingRequests[i].totalCost
       /\ \A j \in 1..Len(pendingRequests') :
             LET items == pendingRequests'[j].items
             IN  pendingRequests'[j].totalCost =
                   SumSeq([k \in 1..Len(items) |->
                              items[k].cost * items[k].quantity])
       /\ Approved =>
             LET ci == ApprovedOwner
                 total == ApprovedRequest.totalCost
             IN  /\ children[ci].balance - children'[ci].balance = total
                 /\ vault'.balance - vault.balance = total]_vars

\* the notifications of the list other than the one of this request
OtherNotifications(notifications, requestId) ==
    LET Others(n) == n.requestId # requestId
    IN  SelectSeq(notifications, Others)

\* C30: getUnshownApprovedRequests returns the notification of an approved
\* request from the approval on, in front of the ones it returned before,
\* until markNotificationShown is called with its requestId and never after;
\* acknowledging one notification leaves the others as they were returned,
\* and no other operation changes what is returned.
NotificationDelivery ==
    [][LET before == getUnshownApprovedRequests
           after == getUnshownApprovedRequests'
       IN  IF Approved
           THEN /\ Len(after) = Len(before) + 1
                /\ after[1].requestId = ApprovedRequest.id
                /\ Tail(after) = before
           ELSE IF result'.op = "markNotificationShown"
           THEN after = OtherNotifications(before, result'.arg)
           ELSE after = before]_vars

\* C31: markNotificationShown(requestId) sets shownToChild of the
\* notifications with that requestId and changes nothing else: the other
\* notifications, the requests, the children, the vault and the transaction
\* log are unchanged; no operation sets a flag back to false.
MarkShownFrame ==
    [][/\ result'.op = "markNotificationShown" =>
             /\ Len(approvedNotifications') = Len(approvedNotifications)
             /\ \A i \in 1..Len(approvedNotifications) :
                   approvedNotifications'[i] =
                      IF approvedNotifications[i].requestId = result'.arg
                      THEN [approvedNotifications[i]
                               EXCEPT !.shownToChild = TRUE]
                      ELSE approvedNotifications[i]
             /\ UNCHANGED <<pendingRequests, requestHistory, children, vault,
                            transactions, tasks, strikes, currentChildId,
                            lastResetDate>>
       /\ \A i \in 1..Len(approvedNotifications) :
             \A j \in 1..Len(approvedNotifications') :
                (/\ approvedNotifications'[j].requestId =
                      approvedNotifications[i].requestId
                 /\ approvedNotifications[i].shownToChild)
                   => approvedNotifications'[j].shownToChild]_vars

\* one of two notifications was marked; the other is still to be shown
MarkShownFrameWitness ==
    /\ result.op = "markNotificationShown"
    /\ Len(approvedNotifications) = 2
    /\ \E i, j \in 1..2 :
          /\ approvedNotifications[i].requestId = result.arg
          /\ approvedNotifications[i].shownToChild
          /\ ~approvedNotifications[j].shownToChild

\* ------------------------------------------------------------------------
\* Children
\* ------------------------------------------------------------------------
\* the children other than the one with this id, in their order
ChildrenWithout(list, childId) ==
    LET Others(c) == c.id # childId
    IN  SelectSeq(list, Others)

\* C32: the children list is never empty, so the acting child (the child
\* with id currentChildId, else the first child) always exists; deleteChild
\* changes nothing when one child is left, and otherwise removes the child
\* and, when it was the one named by currentChildId, sets currentChildId to
\* the first remaining child.
ChildrenNeverEmpty ==
    [][/\ Len(children) >= 1 /\ Len(children') >= 1
       /\ \E i \in 1..Len(children') : children'[i] = getCurrentChild'
       /\ result'.op = "deleteChild" =>
             IF Len(children) = 1
             THEN UNCHANGED <<store, nextId>>
             ELSE /\ children' = ChildrenWithout(children, result'.arg)
                  /\ currentChildId' =
                        IF currentChildId = result'.arg
                        THEN children'[1].id
                        ELSE currentChildId]_vars

\* a second child was added, made the current one, completed a task and was
\* deleted: the first child is the current one again
ChildrenNeverEmptyWitness ==
    /\ scope = "family" /\ budget = MaxFamilySteps - 4
    /\ result.op = "deleteChild" /\ result.success
    /\ Len(children) = 1
    /\ children[1].pendingEarnings = 0
    /\ \E i \in 1..Len(tasks) : tasks[i].completions = 1
    /\ currentChildId = children[1].id

\* C33: every operation other than resetAll leaves the previous transaction
\* log as the unchanged tail of the new one: entries are only put in front,
\* never edited, reordered or removed, also by deleteChild and by the reset.
LogAppendOnly ==
    [][result'.op # "resetAll" =>
          /\ Len(transactions') >= Len(transactions)
          /\ SubSeq(transactions', Len(transactions') - Len(transactions) + 1,
                    Len(transactions')) = transactions]_vars

\* a child with an earn transaction in the log was deleted
LogAppendOnlyWitness ==
    /\ result.op = "deleteChild" /\ result.success
    /\ \E k \in 1..Len(transactions) :
          /\ transactions[k].childId = result.arg
          /\ transactions[k].type = "earn"

StrikesWithout(list, strikeId) ==
    LET Others(s) == s.id # strikeId
    IN  SelectSeq(list, Others)

\* C35: removeStrike removes exactly the strike with the given id and
\* resetStrikes every strike of every child; neither changes a child (so
\* forfeited earnings are not given back), the vault, the transaction log or
\* anything else in the store.
StrikeRemovalFrame ==
    [][/\ result'.op = "removeStrike" =>
             strikes' = StrikesWithout(strikes, result'.arg)
       /\ result'.op = "resetStrikes" => strikes' = <<>>
       /\ result'.op \in {"removeStrike", "resetStrikes"} =>
             UNCHANGED <<children, vault, transactions, tasks,
                         currentChildId, pendingRequests, requestHistory,
                         approvedNotifications, lastResetDate>>]_vars

\* one of the three strikes that forfeited 3 pending was removed: the penalty
\* stays logged and the earnings stay forfeited
StrikeRemovalFrameWitness ==
    /\ result.op = "removeStrike"
    /\ Len(strikes) = 2
    /\ Len(transactions) = 1
    /\ transactions[1].type = "strike_penalty"
    /\ transactions[1].amount = -3
    /\ getCurrentChild.pendingEarnings = 0

\* C36: except in resetAll, no child's totalEarned or totalSpent decreases:
\* totalEarned changes only in a performed reset, by the pendingEarnings it
\* releases, and totalSpent only in a successful approveRequest of a request
\* of that child, by its totalCost.
LifetimeTotalsMonotone ==
    [][result'.op # "resetAll" =>
          \A i \in 1..Len(children) : \A j \in 1..Len(children') :
             children'[j].id = children[i].id =>
                LET old == children[i]
                    new == children'[j]
                IN  /\ new.totalEarned >= old.totalEarned
                    /\ new.totalSpent >= old.totalSpent
                    /\ new.totalEarned # old.totalEarned =>
                          /\ ResetPerformed'
                          /\ new.totalEarned =
                                old.totalEarned + old.pendingEarnings
                    /\ new.totalSpent # old.totalSpent =>
                          /\ Approved
                          /\ ApprovedRequest.childId = old.id
                          /\ new.totalSpent =
                                old.totalSpent + ApprovedRequest.totalCost]_vars

\* a child earned 3 and 2, had them released and spent 2 twice
LifetimeTotalsMonotoneWitness ==
    /\ result.op = "approveRequest" /\ result.success
    /\ getCurrentChild.totalEarned = 5
    /\ getCurrentChild.totalSpent = 4

\* the sum of the amounts of a child's transactions of the given types
BalanceTypes == {"earn", "spend", "savings_deposit", "savings_withdrawal"}
LoggedSum(childId, types) ==
    SumSeq([k \in 1..Len(transactions) |->
               IF transactions[k].childId = childId
                  /\ transactions[k].type \in types
               THEN transactions[k].amount ELSE 0])

\* C37: each child's balance is the sum of the signed amounts of its earn,
\* spend, savings_deposit and savings_withdrawal transactions, its totalEarned
\* the sum of its earn amounts and its totalSpent the sum of the absolute
\* values of its spend amounts (spend amounts are logged negative).
BalanceIsLogged ==
    \A i \in 1..Len(children) :
        LET c == children[i]
        IN  /\ c.balance = LoggedSum(c.id, BalanceTypes)
            /\ c.totalEarned = LoggedSum(c.id, {"earn"})
            /\ c.totalSpent = -LoggedSum(c.id, {"spend"})
            /\ \A k \in 1..Len(transactions) :
                  transactions[k].type = "spend" => transactions[k].amount <= 0

\* a child whose log holds an earn, a spend, a deposit and a withdrawal
BalanceIsLoggedWitness ==
    LET c == getCurrentChild
        Has(type) == \E k \in 1..Len(transactions) :
                        /\ transactions[k].childId = c.id
                        /\ transactions[k].type = type
    IN  /\ \A type \in BalanceTypes : Has(type)
        /\ c.balance > 0

ActingPosition ==
    IF \E i \in 1..Len(children) : children[i].id = currentChildId
    THEN CHOOSE i \in 1..Len(children) : children[i].id = currentChildId
    ELSE 1
ActingOps ==
    {"completeTask", "undoTaskCompletion", "addStrike", "depositToSavings",
     "withdrawFromSavings", "createSpendRequest"}
\* every child but the one at this position is as it was (0: every child)
OthersUnchanged(position) ==
    /\ Len(children') = Len(children)
    /\ \A i \in 1..Len(children) :
          i # position => children'[i] = children[i]

\* C39: completeTask, undoTaskCompletion, addStrike, depositToSavings,
\* withdrawFromSavings and createSpendRequest change no child but the acting
\* one (the child with id currentChildId, else the first child) and record
\* strikes, transactions and requests under its id; approveRequest changes no
\* child but the owner of the request; a task has one completions counter,
\* and an undo lowers the pendingEarnings of the acting child only.
ActingChildOnly ==
    [][/\ result'.op \in ActingOps =>
             /\ OthersUnchanged(ActingPosition)
             /\ \A k \in 1..(Len(transactions') - Len(transactions)) :
                   transactions'[k].childId = children[ActingPosition].id
             /\ \A k \in (Len(strikes) + 1)..Len(strikes') :
                   strikes'[k].childId = children[ActingPosition].id
             /\ \A k \in (Len(pendingRequests) + 1)..Len(pendingRequests') :
                   pendingRequests'[k].childId = children[ActingPosition].id
       /\ result'.op = "approveRequest" =>
             IF RequestIndex(result'.arg) = 0
             THEN OthersUnchanged(0)
             ELSE OthersUnchanged(ApprovedOwner)]_vars

\* with two children, a request of the first child was approved while the
\* second one was the current child
ActingChildOnlyWitness ==
    /\ result.op = "approveRequest" /\ result.success
    /\ Len(children) = 2
    /\ ActingPosition = 2
    /\ requestHistory[1].childId = children[1].id
    /\ children[1].totalSpent > 0
    /\ children[2].totalSpent = 0

\* C40: checkAndPerformDailyReset leaves the vault, pendingRequests,
\* requestHistory and approvedNotifications as they were whether or not it
\* performs a reset (the spend-item catalog is constant in the store: no
\* operation writes it); a call that returns didReset false changes nothing
\* of the store; and while the clock only moves forward no step lowers
\* lastResetDate.
ResetFrame ==
    [][/\ ResetCalled' =>
             UNCHANGED <<vault, pendingRequests, requestHistory,
                         approvedNotifications>>
       /\ (ResetCalled' /\ ~result'.success) => UNCHANGED <<store, nextId>>
       /\ now' >= now => lastResetDate' >= lastResetDate]_vars

\* a reset was performed while a request was pending and after an earlier
\* request had been approved into the history and the notifications
ResetFrameWitness ==
    /\ ResetPerformed
    /\ pendingRequests # <<>>
    /\ requestHistory # <<>>
    /\ approvedNotifications # <<>>
    /\ lastResetDate = getTodayDate
====
